---- MODULE Spec2Model ----
(***************************************************************************)
(* A model of the house builder: the AdvancedHouseBuilder component        *)
(* (src/unnamed/part_001), the 2D FloorPlanDesigner                        *)
(* (src/components/floor-plan-designer.tsx) and the ProjectManager         *)
(* (src/components/project-manager.tsx).                                   *)
(*                                                                         *)
(* Units.  Lengths are integers in centimetres (the designer snaps to a    *)
(* 0.5 m grid, one canvas pixel is 5 cm).  The fractional position of a    *)
(* window or door along its wall is an integer in hundredths (0.5 is 50).  *)
(* Money is whole pesos; the estimate's quantities are fixed-point         *)
(* (see calculateEstimate).                                                *)
(*                                                                         *)
(* One action is one event handler, including the state updates it         *)
(* schedules and the effect that React runs after them (the support-beam   *)
(* effect).  Cosmetic attributes (colours, materials, textures, styles of  *)
(* openings, wall thickness stored on a wall) are not part of the state.   *)
(***************************************************************************)
EXTENDS Integers, Sequences, FiniteSets, TLC

VARIABLES
    floorPlan,            \* useState<FloorPlan>, or Undefined after a bad load
    currentFloor,         \* useState(1)
    selectedWallId,       \* useState<string | null>(null)
    prevSelectedWallId,   \* useState<string | null>(null)
    selectedStaircaseId,  \* useState<string | null>(null)
    wallHeight,           \* useState(3), in cm
    wallThickness,        \* useState(0.15), in cm
    materialRates,        \* useState<MaterialPrices>(DEFAULT_MATERIAL_RATES)
    estimate,             \* useState<MaterialEstimate | null>(null)
    tool,                 \* designer: useState("wall")
    isDrawing,            \* designer: useState(false)
    drawingStart,         \* designer: useState<Point2D | null>(null)
    currentMousePos,      \* designer: useState<Point2D | null>(null)
    projectName,          \* project manager: useState("My House Design")
    projectDescription,   \* project manager: useState("")
    savedProjects,        \* project manager: number of projects in localStorage
    download,             \* the JSON file the last saveProject downloaded
    lastAlert,            \* what the last handler reported with alert()
    nextId,               \* generateId(): the next fresh identifier
    atSave,               \* history: what was current when saveProject last ran
    steps,                \* history: the number of operations so far
    wallSegments,         \* RoofMesh: the segments of the top floor's walls
    orderedPoints,        \* RoofMesh: const orderedPoints: Point2D[] = []
    usedSegments,         \* RoofMesh: const usedSegments = new Set<number>()
    currentPoint,         \* RoofMesh: let currentPoint
    roofGeometry,         \* RoofMesh: the roofGeometry its useMemo returns
    roofPc,               \* RoofMesh: where the useMemo callback is
    points,               \* calculatePolygonArea: its argument
    polygonArea           \* calculatePolygonArea: Null, or [returned |-> its result]

\* The state of the application's components.
appVars == <<floorPlan, currentFloor, selectedWallId, prevSelectedWallId,
             selectedStaircaseId, wallHeight, wallThickness, materialRates,
             estimate, tool, isDrawing, drawingStart, currentMousePos,
             projectName, projectDescription, savedProjects, download,
             lastAlert, nextId, atSave, steps>>

\* The state of one evaluation of RoofMesh's useMemo callback.
roofVars == <<wallSegments, orderedPoints, usedSegments, currentPoint,
              roofGeometry, roofPc>>

\* The state of one call of calculatePolygonArea.
areaVars == <<points, polygonArea>>

vars == <<appVars, roofVars, areaVars>>

builderVars == <<currentFloor, selectedWallId, prevSelectedWallId,
                 selectedStaircaseId>>
settingVars == <<wallHeight, wallThickness, materialRates>>
designerVars == <<tool, isDrawing, drawingStart, currentMousePos>>
projectVars == <<projectName, projectDescription, savedProjects, download, atSave>>

----------------------------------------------------------------------------
\* Bounds of the model.

\* Identifiers in one behaviour, the first floor's and generateId()'s.
MaxIds == 5
\* Projects saveProject stores in one behaviour.
MaxSaves == 1
\* Operations in one behaviour of the specification of all handlers.
MaxSteps == 5
\* Identifiers in one behaviour of the specifications of some handlers.
MaxSessionIds == 4

----------------------------------------------------------------------------
\* JavaScript values.

\* The null of an identifier (no wall, no staircase selected).
NullId == 0
\* The null of an object (no estimate, no drawing start, no file).
Null == [null |-> TRUE]
\* undefined: a missing property, read.
Undefined == [undefined |-> TRUE]

\* A string (a value that can be compared with undefined).
Str(s) == [str |-> s]

NoAlert == "none"

Min(a, b) == IF a < b THEN a ELSE b
Max(a, b) == IF a > b THEN a ELSE b

\* Array.prototype.flatMap: the concatenation of a sequence of sequences
RECURSIVE Concat(_)
Concat(ss) == IF ss = <<>> THEN <<>> ELSE Head(ss) \o Concat(Tail(ss))

----------------------------------------------------------------------------
\* Geometry helpers.

Point(x, z) == [x |-> x, z |-> z]

\* The square of calculateDistance(p1, p2), in cm^2.
DistanceSq(p1, p2) == (p2.x - p1.x) * (p2.x - p1.x) + (p2.z - p1.z) * (p2.z - p1.z)

\* floor(sqrt(n)) by Newton's iteration.
RECURSIVE SqrtIter(_, _)
SqrtIter(n, x) ==
    LET y == (x + n \div x) \div 2
    IN  IF y >= x THEN x ELSE SqrtIter(n, y)

ISqrt(n) == IF n <= 0 THEN 0 ELSE SqrtIter(n, n)

\* calculateDistance(p1, p2) in whole cm (Math.sqrt, rounded down to the cm).
calculateDistance(p1, p2) == ISqrt(DistanceSq(p1, p2))

\* calculateWallArea(wall) = length * height, in cm^2.
calculateWallArea(wall) == calculateDistance(wall.start, wall.end) * wall.height

----------------------------------------------------------------------------
\* The floor plan.

\* floorPlan.floors.find((f) => f.level === level)
FindFloor(fp, level) ==
    LET idx == {i \in 1..Len(fp.floors) : fp.floors[i].level = level}
    IN  IF idx = {} THEN Undefined
        ELSE fp.floors[CHOOSE i \in idx : \A j \in idx : i <= j]

\* walls.find((wall) => wall.id === wallId)
FindWall(walls, wallId) ==
    LET idx == {i \in 1..Len(walls) : walls[i].id = wallId}
    IN  IF idx = {} THEN Undefined
        ELSE walls[CHOOSE i \in idx : \A j \in idx : i <= j]

\* floors.map((floor) => floor.level === floorLevel ? { ...floor, walls: newWalls } : floor)
WithWalls(fp, floorLevel, newWalls) ==
    [fp EXCEPT !.floors =
        [i \in 1..Len(fp.floors) |->
            IF fp.floors[i].level = floorLevel
            THEN [fp.floors[i] EXCEPT !.walls = newWalls]
            ELSE fp.floors[i]]]

AllWalls(fp) == Concat([i \in 1..Len(fp.floors) |-> fp.floors[i].walls])

\* The end points of a list of walls.
EndPoints(walls) ==
    {walls[i].start : i \in 1..Len(walls)} \cup {walls[i].end : i \in 1..Len(walls)}

SetMin(S) == CHOOSE m \in S : \A n \in S : m <= n
SetMax(S) == CHOOSE m \in S : \A n \in S : m >= n

\* The bounding box of a non-empty list of walls.
BoundsOf(walls) ==
    LET xs == {p.x : p \in EndPoints(walls)}
        zs == {p.z : p \in EndPoints(walls)}
    IN  [minX |-> SetMin(xs), maxX |-> SetMax(xs),
         minZ |-> SetMin(zs), maxZ |-> SetMax(zs)]

\* detectOverhangAreas: the floor 2 walls whose mid point lies more than
\* 0.5 m outside floor 1's bounding box.
OverhangMargin == 50

IsOverhangWall(wall, b) ==
    LET mid2X == wall.start.x + wall.end.x
        mid2Z == wall.start.z + wall.end.z
    IN  \/ mid2X < 2 * (b.minX - OverhangMargin)
        \/ mid2X > 2 * (b.maxX + OverhangMargin)
        \/ mid2Z < 2 * (b.minZ - OverhangMargin)
        \/ mid2Z > 2 * (b.maxZ + OverhangMargin)

\* generateSupportBeams: a beam at each end of every overhanging wall.
RECURSIVE BeamsFor(_, _, _)
BeamsFor(walls2, b, floorHeight) ==
    IF walls2 = <<>> THEN <<>>
    ELSE (IF IsOverhangWall(Head(walls2), b)
          THEN << [wall |-> Head(walls2).id, corner |-> "start",
                   start |-> Head(walls2).start, height |-> floorHeight],
                  [wall |-> Head(walls2).id, corner |-> "end",
                   start |-> Head(walls2).end, height |-> floorHeight] >>
          ELSE <<>>) \o BeamsFor(Tail(walls2), b, floorHeight)

generateSupportBeams(floor1Walls, floor2Walls, floorHeight) ==
    IF floor1Walls = <<>> \/ floor2Walls = <<>> THEN <<>>
    ELSE BeamsFor(floor2Walls, BoundsOf(floor1Walls), floorHeight)

\* The effect on [floorPlan.floors]: with walls on floors 1 and 2, floor 1
\* gets the generated beams when there are some and their number changed.
SupportBeamEffect(fp) ==
    IF Len(fp.floors) < 2 THEN fp
    ELSE
      LET floor1 == FindFloor(fp, 1)
          floor2 == FindFloor(fp, 2)
      IN  IF floor1 = Undefined \/ floor2 = Undefined THEN fp
          ELSE IF floor1.walls = <<>> \/ floor2.walls = <<>> THEN fp
          ELSE
            LET autoBeams == generateSupportBeams(floor1.walls, floor2.walls, floor1.height)
            IN  IF Len(autoBeams) > 0 /\ Len(floor1.beams) # Len(autoBeams)
                THEN [fp EXCEPT !.floors =
                        [i \in 1..Len(fp.floors) |->
                            IF fp.floors[i].level = 1
                            THEN [fp.floors[i] EXCEPT !.beams = autoBeams]
                            ELSE fp.floors[i]]]
                ELSE fp

\* getFloor1Footprint(floorPlan): the bounding box of floor 1's wall end
\* points, null when floor 1 has no walls.
getFloor1Footprint(fp) ==
    LET floor1 == FindFloor(fp, 1)
    IN  IF floor1 = Undefined THEN Null
        ELSE IF floor1.walls = <<>> THEN Null
        ELSE BoundsOf(floor1.walls)

\* const maxPlotArea = 200 // sqm
maxPlotArea == 200
SqCmPerSqm == 10000

\* point.x >= -halfWidth && point.x <= halfWidth && point.z >= -halfDepth && ...
\* (the halves doubled: widths in cm may be odd).
WithinPlot(point, plotBounds) ==
    /\ 2 * point.x >= -plotBounds.width
    /\ 2 * point.x <= plotBounds.width
    /\ 2 * point.z >= -plotBounds.depth
    /\ 2 * point.z <= plotBounds.depth

WithinBox(point, b) ==
    /\ point.x >= b.minX
    /\ point.x <= b.maxX
    /\ point.z >= b.minZ
    /\ point.z <= b.maxZ

\* isPointWithinBounds(point), for a wall of floor `level`: inside the plot
\* and, above floor 1, inside floor 1's footprint (never, when floor 1 has
\* no walls).
isPointWithinBounds(fp, level, point) ==
    IF level > 1
    THEN LET floor1Footprint == getFloor1Footprint(fp)
         IN  IF floor1Footprint # Null
             THEN WithinPlot(point, fp.plotBounds) /\ WithinBox(point, floor1Footprint)
             ELSE FALSE
    ELSE WithinPlot(point, fp.plotBounds)

----------------------------------------------------------------------------
\* The initial state: the useState initial values.

InitialFloorPlan ==
    [plotBounds |-> [width |-> 2000, depth |-> 1000],
     floors |-> << [id |-> 1, level |-> 1, height |-> 300,
                    walls |-> <<>>, beams |-> <<>>] >>,
     staircases |-> <<>>,
     roofStyle |-> "flat"]

DEFAULT_MATERIAL_RATES ==
    [concrete_per_m3 |-> 4500, steel_per_kg |-> 75, blocks_per_piece |-> 15,
     blocks_per_10m2 |-> 125, roofing_per_m2 |-> 350, window_per_m2 |-> 2500,
     door_per_piece |-> 8000, staircase_per_flight |-> 35000,
     labor_per_m2 |-> 1200]

InitApp ==
    /\ floorPlan = InitialFloorPlan
    /\ currentFloor = 1
    /\ selectedWallId = NullId
    /\ prevSelectedWallId = NullId
    /\ selectedStaircaseId = NullId
    /\ wallHeight = 300
    /\ wallThickness = 15
    /\ materialRates = DEFAULT_MATERIAL_RATES
    /\ estimate = Null
    /\ tool = "wall"
    /\ isDrawing = FALSE
    /\ drawingStart = Null
    /\ currentMousePos = Null
    /\ projectName = Str("My House Design")
    /\ projectDescription = Str("")
    /\ savedProjects = 0
    /\ download = Null
    /\ lastAlert = NoAlert
    /\ nextId = 2
    /\ atSave = Null
    /\ steps = 0

\* No roof is being computed.
RoofIdle ==
    /\ wallSegments = <<>>
    /\ orderedPoints = <<>>
    /\ usedSegments = {}
    /\ currentPoint = Null
    /\ roofGeometry = Null
    /\ roofPc = "idle"

\* No polygon's area is being computed.
AreaIdle ==
    /\ points = <<>>
    /\ polygonArea = Null

Init == InitApp /\ RoofIdle /\ AreaIdle

\* The component tree is mounted: a floor plan that is undefined makes the
\* next render throw (floorPlan.plotBounds), and no handler runs after that.
Mounted == floorPlan # Undefined

\* generateId() can hand out n more identifiers.
CanGenerate(n) == nextId + n - 1 <= MaxIds

----------------------------------------------------------------------------
\* AdvancedHouseBuilder: plot, floors, staircases.

\* handlePlotResize(dimension, value)
handlePlotResize(dimension, value) ==
    /\ Mounted
    /\ LET newBounds == [floorPlan.plotBounds EXCEPT ![dimension] = value]
       IN  floorPlan' =
             IF newBounds.width * newBounds.depth <= maxPlotArea * SqCmPerSqm
             THEN [floorPlan EXCEPT !.plotBounds = newBounds]
             ELSE floorPlan
    /\ lastAlert' = NoAlert
    /\ UNCHANGED <<builderVars, settingVars, estimate, designerVars, projectVars, nextId>>

\* A faulty addFloor, which numbers the new floor from zero.
addFloorRepeatingLevel ==
    /\ Mounted
    /\ IF Len(floorPlan.floors) >= 2
       THEN /\ lastAlert' = "Maximum 2 floors allowed"
            /\ UNCHANGED <<floorPlan, currentFloor, nextId>>
       ELSE /\ CanGenerate(1)
            /\ LET newFloor == [id |-> nextId, level |-> Len(floorPlan.floors),
                                height |-> 300, walls |-> <<>>, beams |-> <<>>]
               IN  /\ floorPlan' = SupportBeamEffect(
                                      [floorPlan EXCEPT !.floors = Append(@, newFloor)])
                   /\ currentFloor' = newFloor.level
            /\ nextId' = nextId + 1
            /\ lastAlert' = NoAlert
    /\ UNCHANGED <<selectedWallId, prevSelectedWallId, selectedStaircaseId,
                   settingVars, estimate, designerVars, projectVars>>

\* A faulty addFloor, without the limit of two floors.
addFloorUnlimited ==
    /\ Mounted
    /\ CanGenerate(1)
    /\ LET newFloor == [id |-> nextId, level |-> Len(floorPlan.floors) + 1,
                        height |-> 300, walls |-> <<>>, beams |-> <<>>]
       IN  /\ floorPlan' = SupportBeamEffect(
                              [floorPlan EXCEPT !.floors = Append(@, newFloor)])
           /\ currentFloor' = newFloor.level
    /\ nextId' = nextId + 1
    /\ lastAlert' = NoAlert
    /\ UNCHANGED <<selectedWallId, prevSelectedWallId, selectedStaircaseId,
                   settingVars, estimate, designerVars, projectVars>>

\* addFloor()
addFloor ==
    /\ Mounted
    /\ IF Len(floorPlan.floors) >= 2
       THEN /\ lastAlert' = "Maximum 2 floors allowed"
            /\ UNCHANGED <<floorPlan, currentFloor, nextId>>
       ELSE /\ CanGenerate(1)
            /\ LET newFloor == [id |-> nextId, level |-> Len(floorPlan.floors) + 1,
                                height |-> 300, walls |-> <<>>, beams |-> <<>>]
               IN  /\ floorPlan' = SupportBeamEffect(
                                      [floorPlan EXCEPT !.floors = Append(@, newFloor)])
                   /\ currentFloor' = newFloor.level
            /\ nextId' = nextId + 1
            /\ lastAlert' = NoAlert
    /\ UNCHANGED <<selectedWallId, prevSelectedWallId, selectedStaircaseId,
                   settingVars, estimate, designerVars, projectVars>>

\* floors.filter((floor) => floor.level !== floorLevel)
\*       .map((floor, index) => ({ ...floor, level: index + 1 }))
FloorsWithout(floors, floorLevel) ==
    LET kept == SelectSeq(floors, LAMBDA f : f.level # floorLevel)
    IN  [i \in 1..Len(kept) |-> [kept[i] EXCEPT !.level = i]]

\* A faulty removeFloor, which deselects the wall before it checks the floor.
removeFloorDeselectingFirst(floorLevel) ==
    /\ Mounted
    /\ selectedWallId' = NullId
    /\ IF Len(floorPlan.floors) <= 1
       THEN /\ lastAlert' = "Cannot remove the last floor"
            /\ UNCHANGED <<floorPlan, currentFloor>>
       ELSE IF floorLevel = 1
       THEN /\ lastAlert' = "Cannot remove floor 1"
            /\ UNCHANGED <<floorPlan, currentFloor>>
       ELSE /\ floorPlan' = SupportBeamEffect(
                    [floorPlan EXCEPT !.floors = FloorsWithout(@, floorLevel)])
            /\ currentFloor' = IF currentFloor = floorLevel THEN 1
                               ELSE IF currentFloor > floorLevel THEN currentFloor - 1
                               ELSE currentFloor
            /\ lastAlert' = NoAlert
    /\ UNCHANGED <<prevSelectedWallId, selectedStaircaseId, settingVars, estimate,
                   designerVars, projectVars, nextId>>

\* removeFloor(floorLevel)
removeFloor(floorLevel) ==
    /\ Mounted
    /\ IF Len(floorPlan.floors) <= 1
       THEN /\ lastAlert' = "Cannot remove the last floor"
            /\ UNCHANGED <<floorPlan, currentFloor, selectedWallId>>
       ELSE IF floorLevel = 1
       THEN /\ lastAlert' = "Cannot remove floor 1"
            /\ UNCHANGED <<floorPlan, currentFloor, selectedWallId>>
       ELSE /\ floorPlan' = SupportBeamEffect(
                    [floorPlan EXCEPT !.floors = FloorsWithout(@, floorLevel)])
            /\ currentFloor' = IF currentFloor = floorLevel THEN 1
                               ELSE IF currentFloor > floorLevel THEN currentFloor - 1
                               ELSE currentFloor
            /\ selectedWallId' = NullId
            /\ lastAlert' = NoAlert
    /\ UNCHANGED <<prevSelectedWallId, selectedStaircaseId, settingVars, estimate,
                   designerVars, projectVars, nextId>>

\* The floor button: setCurrentFloor(floor.level), for a floor of the plan.
selectFloor(level) ==
    /\ Mounted
    /\ \E i \in 1..Len(floorPlan.floors) : floorPlan.floors[i].level = level
    /\ currentFloor' = level
    /\ lastAlert' = NoAlert
    /\ UNCHANGED <<floorPlan, selectedWallId, prevSelectedWallId, selectedStaircaseId,
                   settingVars, estimate, designerVars, projectVars, nextId>>

\* addStaircase()
addStaircase ==
    /\ Mounted
    /\ IF Len(floorPlan.floors) < 2
       THEN /\ lastAlert' = "You need at least 2 floors to add a staircase!"
            /\ UNCHANGED <<floorPlan, nextId>>
       ELSE /\ CanGenerate(1)
            /\ floorPlan' = [floorPlan EXCEPT !.staircases =
                    Append(@, [id |-> nextId, fromFloor |-> currentFloor,
                               toFloor |-> currentFloor + 1])]
            /\ nextId' = nextId + 1
            /\ lastAlert' = NoAlert
    /\ UNCHANGED <<builderVars, settingVars, estimate, designerVars, projectVars>>

\* The staircase mesh's onClick: select, or deselect the selected one.
selectStaircase(staircaseId) ==
    /\ Mounted
    /\ \E i \in 1..Len(floorPlan.staircases) :
          /\ floorPlan.staircases[i].id = staircaseId
          \* rendered only when its fromFloor exists
          /\ FindFloor(floorPlan, floorPlan.staircases[i].fromFloor) # Undefined
    /\ selectedStaircaseId' = IF staircaseId = selectedStaircaseId THEN NullId
                              ELSE staircaseId
    /\ lastAlert' = NoAlert
    /\ UNCHANGED <<floorPlan, currentFloor, selectedWallId, prevSelectedWallId,
                   settingVars, estimate, designerVars, projectVars, nextId>>

\* deleteStaircase(selectedStaircase.id)
deleteStaircase ==
    /\ Mounted
    /\ \E i \in 1..Len(floorPlan.staircases) :
          floorPlan.staircases[i].id = selectedStaircaseId
    /\ floorPlan' = [floorPlan EXCEPT !.staircases =
            SelectSeq(@, LAMBDA st : st.id # selectedStaircaseId)]
    /\ selectedStaircaseId' = NullId
    /\ lastAlert' = NoAlert
    /\ UNCHANGED <<currentFloor, selectedWallId, prevSelectedWallId,
                   settingVars, estimate, designerVars, projectVars, nextId>>

----------------------------------------------------------------------------
\* AdvancedHouseBuilder: walls, windows and doors.

\* const currentFloorData = floorPlan.floors.find((floor) => floor.level === currentFloor)
currentFloorData == FindFloor(floorPlan, currentFloor)

\* currentFloorData?.walls || []
currentWalls == IF currentFloorData = Undefined THEN <<>> ELSE currentFloorData.walls

\* const selectedWall = currentFloorData?.walls.find((wall) => wall.id === selectedWallId)
selectedWall == FindWall(currentWalls, selectedWallId)

\* A faulty handleWallSelect, which toggles without looking at the floor.
handleWallSelectIgnoringFloor(wallId, floorLevel) ==
    IF selectedWallId = wallId
    THEN /\ selectedWallId' = NullId
         /\ prevSelectedWallId' = NullId
         /\ UNCHANGED currentFloor
    ELSE /\ prevSelectedWallId' = IF selectedWallId # NullId THEN selectedWallId
                                  ELSE prevSelectedWallId
         /\ selectedWallId' = wallId
         /\ currentFloor' = IF wallId # NullId THEN floorLevel ELSE currentFloor

\* handleWallSelect(wallId, floorLevel)
handleWallSelect(wallId, floorLevel) ==
    IF selectedWallId = wallId /\ currentFloor = floorLevel
    THEN /\ selectedWallId' = NullId
         /\ prevSelectedWallId' = NullId
         /\ UNCHANGED currentFloor
    ELSE /\ prevSelectedWallId' = IF selectedWallId # NullId THEN selectedWallId
                                  ELSE prevSelectedWallId
         /\ selectedWallId' = wallId
         /\ currentFloor' = IF wallId # NullId THEN floorLevel ELSE currentFloor

\* A click on a wall mesh of the 3D view: handleWallSelect(wall.id, floor.level).
clickWallMesh(wallId, floorLevel) ==
    /\ Mounted
    /\ \E i \in 1..Len(floorPlan.floors) :
          /\ floorPlan.floors[i].level = floorLevel
          /\ FindWall(floorPlan.floors[i].walls, wallId) # Undefined
    /\ handleWallSelect(wallId, floorLevel)
    /\ lastAlert' = NoAlert
    /\ UNCHANGED <<floorPlan, selectedStaircaseId, settingVars, estimate,
                   designerVars, projectVars, nextId>>

\* The timer of the previous wall's highlight: setPrevSelectedWallId(null).
prevHighlightDecay ==
    /\ Mounted
    /\ prevSelectedWallId # NullId
    /\ prevSelectedWallId' = NullId
    /\ UNCHANGED <<floorPlan, currentFloor, selectedWallId, selectedStaircaseId,
                   settingVars, estimate, designerVars, projectVars, lastAlert, nextId>>

\* The Deselect buttons: setSelectedWallId(null).
deselectWall ==
    /\ Mounted
    /\ selectedWallId # NullId
    /\ selectedWallId' = NullId
    /\ lastAlert' = NoAlert
    /\ UNCHANGED <<floorPlan, currentFloor, prevSelectedWallId, selectedStaircaseId,
                   settingVars, estimate, designerVars, projectVars, nextId>>

\* A faulty clamp, which stores the requested position as it is.
clampPositionUnclamped(newPosition) == newPosition

\* Math.max(0.1, Math.min(0.9, newPosition)), in hundredths.
clampPosition(newPosition) == Max(10, Min(90, newPosition))

NewWindow(id) == [id |-> id, position |-> 50, width |-> 120, height |-> 100]
NewDoor(id) == [id |-> id, position |-> 50, width |-> 90, height |-> 210]

\* wall.windows.map((window) => window.id === windowId ? { ...window, position } : window)
WithPosition(openings, openingId, position) ==
    [k \in 1..Len(openings) |->
        IF openings[k].id = openingId
        THEN [openings[k] EXCEPT !.position = position]
        ELSE openings[k]]

\* addWindow(wallId, floorLevel): the floor plan with a new window on the wall.
addWindow(fp, wallId, floorLevel, id) ==
    [fp EXCEPT !.floors =
        [i \in 1..Len(fp.floors) |->
            IF fp.floors[i].level = floorLevel
            THEN [fp.floors[i] EXCEPT !.walls =
                    [j \in 1..Len(@) |->
                        IF @[j].id = wallId
                        THEN [@[j] EXCEPT !.windows = Append(@, NewWindow(id))]
                        ELSE @[j]]]
            ELSE fp.floors[i]]]

\* addDoor(wallId, floorLevel)
addDoor(fp, wallId, floorLevel, id) ==
    [fp EXCEPT !.floors =
        [i \in 1..Len(fp.floors) |->
            IF fp.floors[i].level = floorLevel
            THEN [fp.floors[i] EXCEPT !.walls =
                    [j \in 1..Len(@) |->
                        IF @[j].id = wallId
                        THEN [@[j] EXCEPT !.doors = Append(@, NewDoor(id))]
                        ELSE @[j]]]
            ELSE fp.floors[i]]]

\* updateWindowPosition(wallId, windowId, newPosition, floorLevel)
updateWindowPosition(fp, wallId, windowId, newPosition, floorLevel) ==
    [fp EXCEPT !.floors =
        [i \in 1..Len(fp.floors) |->
            IF fp.floors[i].level = floorLevel
            THEN [fp.floors[i] EXCEPT !.walls =
                    [j \in 1..Len(@) |->
                        IF @[j].id = wallId
                        THEN [@[j] EXCEPT !.windows =
                                WithPosition(@, windowId, clampPosition(newPosition))]
                        ELSE @[j]]]
            ELSE fp.floors[i]]]

\* updateDoorPosition(wallId, doorId, newPosition, floorLevel)
updateDoorPosition(fp, wallId, doorId, newPosition, floorLevel) ==
    [fp EXCEPT !.floors =
        [i \in 1..Len(fp.floors) |->
            IF fp.floors[i].level = floorLevel
            THEN [fp.floors[i] EXCEPT !.walls =
                    [j \in 1..Len(@) |->
                        IF @[j].id = wallId
                        THEN [@[j] EXCEPT !.doors =
                                WithPosition(@, doorId, clampPosition(newPosition))]
                        ELSE @[j]]]
            ELSE fp.floors[i]]]

\* The inline handler of a window's delete button.
deleteWindow(fp, wallId, windowId, floorLevel) ==
    [fp EXCEPT !.floors =
        [i \in 1..Len(fp.floors) |->
            IF fp.floors[i].level = floorLevel
            THEN [fp.floors[i] EXCEPT !.walls =
                    [j \in 1..Len(@) |->
                        IF @[j].id = wallId
                        THEN [@[j] EXCEPT !.windows = SelectSeq(@, LAMBDA w : w.id # windowId)]
                        ELSE @[j]]]
            ELSE fp.floors[i]]]

\* The inline handler of a door's delete button.
deleteDoor(fp, wallId, doorId, floorLevel) ==
    [fp EXCEPT !.floors =
        [i \in 1..Len(fp.floors) |->
            IF fp.floors[i].level = floorLevel
            THEN [fp.floors[i] EXCEPT !.walls =
                    [j \in 1..Len(@) |->
                        IF @[j].id = wallId
                        THEN [@[j] EXCEPT !.doors = SelectSeq(@, LAMBDA d : d.id # doorId)]
                        ELSE @[j]]]
            ELSE fp.floors[i]]]

\* deleteWall(wallId, floorLevel)
deleteWall(fp, wallId, floorLevel) ==
    [fp EXCEPT !.floors =
        [i \in 1..Len(fp.floors) |->
            IF fp.floors[i].level = floorLevel
            THEN [fp.floors[i] EXCEPT !.walls = SelectSeq(@, LAMBDA w : w.id # wallId)]
            ELSE fp.floors[i]]]

floorPlanOnly == <<builderVars, settingVars, estimate, designerVars, projectVars>>

\* The selected wall's "+ Window" button: addWindow(selectedWall.id, currentFloor).
clickAddWindow ==
    /\ Mounted
    /\ selectedWall # Undefined
    /\ CanGenerate(1)
    /\ floorPlan' = SupportBeamEffect(addWindow(floorPlan, selectedWall.id, currentFloor, nextId))
    /\ nextId' = nextId + 1
    /\ lastAlert' = NoAlert
    /\ UNCHANGED floorPlanOnly

\* The selected wall's "+ Door" button: addDoor(selectedWall.id, currentFloor).
clickAddDoor ==
    /\ Mounted
    /\ selectedWall # Undefined
    /\ CanGenerate(1)
    /\ floorPlan' = SupportBeamEffect(addDoor(floorPlan, selectedWall.id, currentFloor, nextId))
    /\ nextId' = nextId + 1
    /\ lastAlert' = NoAlert
    /\ UNCHANGED floorPlanOnly

\* A window's position slider: updateWindowPosition(selectedWall.id, window.id, value, currentFloor).
slideWindow(windowId, value) ==
    /\ Mounted
    /\ selectedWall # Undefined
    /\ \E k \in 1..Len(selectedWall.windows) : selectedWall.windows[k].id = windowId
    /\ floorPlan' = SupportBeamEffect(
            updateWindowPosition(floorPlan, selectedWall.id, windowId, value, currentFloor))
    /\ lastAlert' = NoAlert
    /\ UNCHANGED <<floorPlanOnly, nextId>>

\* A door's position slider: updateDoorPosition(selectedWall.id, door.id, value, currentFloor).
slideDoor(doorId, value) ==
    /\ Mounted
    /\ selectedWall # Undefined
    /\ \E k \in 1..Len(selectedWall.doors) : selectedWall.doors[k].id = doorId
    /\ floorPlan' = SupportBeamEffect(
            updateDoorPosition(floorPlan, selectedWall.id, doorId, value, currentFloor))
    /\ lastAlert' = NoAlert
    /\ UNCHANGED <<floorPlanOnly, nextId>>

\* A window's delete button.
clickDeleteWindow(windowId) ==
    /\ Mounted
    /\ selectedWall # Undefined
    /\ \E k \in 1..Len(selectedWall.windows) : selectedWall.windows[k].id = windowId
    /\ floorPlan' = SupportBeamEffect(
            deleteWindow(floorPlan, selectedWall.id, windowId, currentFloor))
    /\ lastAlert' = NoAlert
    /\ UNCHANGED <<floorPlanOnly, nextId>>

\* A door's delete button.
clickDeleteDoor(doorId) ==
    /\ Mounted
    /\ selectedWall # Undefined
    /\ \E k \in 1..Len(selectedWall.doors) : selectedWall.doors[k].id = doorId
    /\ floorPlan' = SupportBeamEffect(
            deleteDoor(floorPlan, selectedWall.id, doorId, currentFloor))
    /\ lastAlert' = NoAlert
    /\ UNCHANGED <<floorPlanOnly, nextId>>

\* The selected wall's delete button: deleteWall(selectedWall.id, currentFloor).
clickDeleteWall ==
    /\ Mounted
    /\ selectedWall # Undefined
    /\ floorPlan' = SupportBeamEffect(deleteWall(floorPlan, selectedWall.id, currentFloor))
    /\ selectedWallId' = NullId
    /\ lastAlert' = NoAlert
    /\ UNCHANGED <<currentFloor, prevSelectedWallId, selectedStaircaseId, settingVars,
                   estimate, designerVars, projectVars, nextId>>

\* The builder's "Clear All Walls" button.
clearAllWalls ==
    /\ Mounted
    /\ floorPlan' = SupportBeamEffect(WithWalls(floorPlan, currentFloor, <<>>))
    /\ selectedWallId' = NullId
    /\ lastAlert' = NoAlert
    /\ UNCHANGED <<currentFloor, prevSelectedWallId, selectedStaircaseId, settingVars,
                   estimate, designerVars, projectVars, nextId>>

\* The roof style select: setFloorPlan((prev) => ({ ...prev, roofStyle: value })).
setRoofStyle(value) ==
    /\ Mounted
    /\ floorPlan' = [floorPlan EXCEPT !.roofStyle = value]
    /\ lastAlert' = NoAlert
    /\ UNCHANGED <<floorPlanOnly, nextId>>

----------------------------------------------------------------------------
\* FloorPlanDesigner.  Its walls are the current floor's walls, its
\* onWallsChange(newWalls) is handleWallsChange(newWalls, currentFloor) and
\* its onWallSelect(wallId) is handleWallSelect(wallId, currentFloor).

\* const scale = 20 (pixels per metre): one pixel is 5 cm.
CmPerPixel == 5
\* centerX = canvasWidth / 2, centerY = canvasHeight / 2
centerX == 250
centerY == 300
\* snapToGrid's gridSize = 0.5
gridSize == 50
\* findNearestPoint's threshold = 1
snapThreshold == 100
\* Don't create zero-length walls: calculateDistance(drawingStart, endPoint) > 0.1
minWallLength == 10

\* canvasToWorld(point)
canvasToWorld(point) ==
    Point((point.x - centerX) * CmPerPixel, -(point.z - centerY) * CmPerPixel)

\* snapToGrid(value) = Math.round(value / gridSize) * gridSize; Math.round
\* rounds a half up.
snapToGrid(value) == ((2 * value + gridSize) \div (2 * gridSize)) * gridSize

\* The snappedPoint of a mouse event at canvasPoint.
snappedPointOf(canvasPoint) ==
    LET worldPoint == canvasToWorld(canvasPoint)
    IN  Point(snapToGrid(worldPoint.x), snapToGrid(worldPoint.z))

\* findNearestPoint(point, walls): the first wall with an end closer than
\* the threshold gives its start if that is close, else its end.
RECURSIVE findNearestPoint(_, _)
findNearestPoint(point, walls) ==
    IF walls = <<>> THEN Null
    ELSE IF DistanceSq(point, Head(walls).start) < snapThreshold * snapThreshold
         THEN Head(walls).start
    ELSE IF DistanceSq(point, Head(walls).end) < snapThreshold * snapThreshold
         THEN Head(walls).end
    ELSE findNearestPoint(point, Tail(walls))

\* nearestPoint || snappedPoint
snapOrNearest(snappedPoint, walls) ==
    LET nearestPoint == findNearestPoint(snappedPoint, walls)
    IN  IF nearestPoint # Null THEN nearestPoint ELSE snappedPoint

\* wallHeight={currentFloorData?.height || 3}
designerWallHeight == IF currentFloorData = Undefined THEN 300 ELSE currentFloorData.height

NewWall(id, start, end) ==
    [id |-> id, start |-> start, end |-> end, height |-> designerWallHeight,
     windows |-> <<>>, doors |-> <<>>]

\* handleWallsChange(newWalls, floorLevel), with the effect that follows.
handleWallsChange(newWalls, floorLevel) ==
    floorPlan' = SupportBeamEffect(WithWalls(floorPlan, floorLevel, newWalls))

\* createRectangularRoom(start, end): the four walls around the rectangle.
rectangleWalls(start, end, firstId) ==
    LET minX == Min(start.x, end.x)
        maxX == Max(start.x, end.x)
        minZ == Min(start.z, end.z)
        maxZ == Max(start.z, end.z)
        corners == << Point(minX, minZ), Point(maxX, minZ),
                      Point(maxX, maxZ), Point(minX, maxZ) >>
    IN  [i \in 1..4 |-> NewWall(firstId + i - 1, corners[i], corners[(i % 4) + 1])]

\* A faulty wall tool, which goes on drawing from the wall it has added.
mouseDownWallChained(canvasPoint) ==
    /\ Mounted
    /\ tool = "wall"
    /\ LET snappedPoint == snappedPointOf(canvasPoint)
       IN  IF ~isDrawing
           THEN /\ drawingStart' = snapOrNearest(snappedPoint, currentWalls)
                /\ isDrawing' = TRUE
                /\ UNCHANGED <<floorPlan, currentMousePos, nextId>>
           ELSE LET endPoint == snapOrNearest(snappedPoint, currentWalls)
                IN  IF drawingStart # Null
                       /\ DistanceSq(drawingStart, endPoint) > minWallLength * minWallLength
                    THEN /\ CanGenerate(1)
                         /\ handleWallsChange(
                                Append(currentWalls, NewWall(nextId, drawingStart, endPoint)),
                                currentFloor)
                         /\ nextId' = nextId + 1
                         /\ drawingStart' = endPoint
                         /\ UNCHANGED <<isDrawing, currentMousePos>>
                    ELSE /\ isDrawing' = FALSE
                         /\ drawingStart' = Null
                         /\ currentMousePos' = Null
                         /\ UNCHANGED <<floorPlan, nextId>>
    /\ lastAlert' = NoAlert
    /\ UNCHANGED <<builderVars, settingVars, estimate, tool, projectVars>>

\* handleMouseDown with the wall tool.
mouseDownWall(canvasPoint) ==
    /\ Mounted
    /\ tool = "wall"
    /\ LET snappedPoint == snappedPointOf(canvasPoint)
       IN  IF ~isDrawing
           THEN /\ drawingStart' = snapOrNearest(snappedPoint, currentWalls)
                /\ isDrawing' = TRUE
                /\ UNCHANGED <<floorPlan, currentMousePos, nextId>>
           ELSE /\ IF drawingStart # Null
                   THEN LET endPoint == snapOrNearest(snappedPoint, currentWalls)
                        IN  IF DistanceSq(drawingStart, endPoint) > minWallLength * minWallLength
                            THEN /\ CanGenerate(1)
                                 /\ handleWallsChange(
                                        Append(currentWalls, NewWall(nextId, drawingStart, endPoint)),
                                        currentFloor)
                                 /\ nextId' = nextId + 1
                            ELSE UNCHANGED <<floorPlan, nextId>>
                   ELSE UNCHANGED <<floorPlan, nextId>>
                /\ isDrawing' = FALSE
                /\ drawingStart' = Null
                /\ currentMousePos' = Null
    /\ lastAlert' = NoAlert
    /\ UNCHANGED <<builderVars, settingVars, estimate, tool, projectVars>>

\* handleMouseDown with the rectangle tool.
mouseDownRectangle(canvasPoint) ==
    /\ Mounted
    /\ tool = "rectangle"
    /\ LET snappedPoint == snappedPointOf(canvasPoint)
       IN  IF ~isDrawing
           THEN /\ drawingStart' = snappedPoint
                /\ isDrawing' = TRUE
                /\ UNCHANGED <<floorPlan, currentMousePos, nextId>>
           ELSE /\ IF drawingStart # Null
                   THEN /\ CanGenerate(4)
                        /\ handleWallsChange(
                               currentWalls \o rectangleWalls(drawingStart, snappedPoint, nextId),
                               currentFloor)
                        /\ nextId' = nextId + 4
                   ELSE UNCHANGED <<floorPlan, nextId>>
                /\ isDrawing' = FALSE
                /\ drawingStart' = Null
                /\ currentMousePos' = Null
    /\ lastAlert' = NoAlert
    /\ UNCHANGED <<builderVars, settingVars, estimate, tool, projectVars>>

\* handleMouseDown with the select tool: onWallSelect(clickedWallId), where
\* clickedWallId is the wall drawn nearest to the click within 10 pixels, or
\* null.  The hit test is abstracted to its result: any wall of the
\* designer, or null.
mouseDownSelect(clickedWallId) ==
    /\ Mounted
    /\ tool = "select"
    /\ \/ clickedWallId = NullId
       \/ FindWall(currentWalls, clickedWallId) # Undefined
    /\ handleWallSelect(clickedWallId, currentFloor)
    /\ lastAlert' = NoAlert
    /\ UNCHANGED <<floorPlan, selectedStaircaseId, settingVars, estimate,
                   designerVars, projectVars, nextId>>

\* handleMouseMove: the preview position while drawing.
handleMouseMove(canvasPoint) ==
    /\ Mounted
    /\ isDrawing
    /\ currentMousePos' = snappedPointOf(canvasPoint)
    /\ UNCHANGED <<floorPlan, builderVars, settingVars, estimate, tool, isDrawing,
                   drawingStart, projectVars, lastAlert, nextId>>

\* The tool buttons: setTool(t).
setTool(t) ==
    /\ Mounted
    /\ tool' = t
    /\ lastAlert' = NoAlert
    /\ UNCHANGED <<floorPlan, builderVars, settingVars, estimate, isDrawing,
                   drawingStart, currentMousePos, projectVars, nextId>>

\* The designer's "Cancel Drawing" button.
cancelDrawing ==
    /\ Mounted
    /\ isDrawing' = FALSE
    /\ drawingStart' = Null
    /\ currentMousePos' = Null
    /\ lastAlert' = NoAlert
    /\ UNCHANGED <<floorPlan, builderVars, settingVars, estimate, tool, projectVars, nextId>>

\* The designer's "Clear All Walls" button: onWallsChange([]).
designerClearAllWalls ==
    /\ Mounted
    /\ handleWallsChange(<<>>, currentFloor)
    /\ lastAlert' = NoAlert
    /\ UNCHANGED <<floorPlanOnly, nextId>>

\* The designer's deleteSelectedWall().
deleteSelectedWall ==
    /\ Mounted
    /\ selectedWall # Undefined
    /\ handleWallsChange(SelectSeq(currentWalls, LAMBDA w : w.id # selectedWallId),
                         currentFloor)
    /\ handleWallSelect(NullId, currentFloor)
    /\ lastAlert' = NoAlert
    /\ UNCHANGED <<selectedStaircaseId, settingVars, estimate, designerVars,
                   projectVars, nextId>>

\* The designer's addWindow().
designerAddWindow ==
    /\ Mounted
    /\ selectedWall # Undefined
    /\ CanGenerate(1)
    /\ handleWallsChange(
            [j \in 1..Len(currentWalls) |->
                IF currentWalls[j].id = selectedWallId
                THEN [currentWalls[j] EXCEPT !.windows = Append(@, NewWindow(nextId))]
                ELSE currentWalls[j]],
            currentFloor)
    /\ nextId' = nextId + 1
    /\ lastAlert' = NoAlert
    /\ UNCHANGED floorPlanOnly

\* The designer's addDoor().
designerAddDoor ==
    /\ Mounted
    /\ selectedWall # Undefined
    /\ CanGenerate(1)
    /\ handleWallsChange(
            [j \in 1..Len(currentWalls) |->
                IF currentWalls[j].id = selectedWallId
                THEN [currentWalls[j] EXCEPT !.doors = Append(@, NewDoor(nextId))]
                ELSE currentWalls[j]],
            currentFloor)
    /\ nextId' = nextId + 1
    /\ lastAlert' = NoAlert
    /\ UNCHANGED floorPlanOnly

----------------------------------------------------------------------------
\* The cost estimate.  Quantities are fixed-point: lengths in cm, areas in
\* cm^2, volumes in cm^3, weights in grams; costs in whole pesos, each
\* product rounded down.

RECURSIVE SumOver(_, _)
\* The sum of f over the sequence s, f a function on its elements' indices.
SumOver(f, n) == IF n = 0 THEN 0 ELSE f[n] + SumOver(f, n - 1)

\* floorPlan.floors.reduce(... floor.walls.reduce(... calculateWallArea(wall))) / 3
totalBuiltArea(fp) ==
    LET walls == AllWalls(fp)
    IN  SumOver([i \in 1..Len(walls) |-> calculateWallArea(walls[i])], Len(walls)) \div 3

\* Math.ceil(a / b) for b > 0
CeilDiv(a, b) == (a + b - 1) \div b

\* A faulty total, which leaves the labor out.
estimateTotalWithoutLabor(concrete, steel, blocks, roofing, windows, doors, staircases, labor) ==
    concrete.cost + steel.cost + blocks.cost + roofing.cost + windows.cost
        + doors.cost + staircases.cost

\* concrete.cost + steel.cost + blocks.cost + roofing.cost + windows.cost
\*   + doors.cost + staircases.cost + labor.cost
estimateTotal(concrete, steel, blocks, roofing, windows, doors, staircases, labor) ==
    concrete.cost + steel.cost + blocks.cost + roofing.cost + windows.cost
      + doors.cost + staircases.cost + labor.cost

\* calculateEstimate()
calculateEstimate(fp, height, thickness, rates) ==
    LET walls == AllWalls(fp)
        n == Len(walls)
        totalWallArea == SumOver([i \in 1..n |-> calculateWallArea(walls[i])], n)
        totalWallLength ==
            SumOver([i \in 1..n |-> calculateDistance(walls[i].start, walls[i].end)], n)
        totalWindowCount == SumOver([i \in 1..n |-> Len(walls[i].windows)], n)
        totalWindowArea ==
            SumOver([i \in 1..n |->
                       SumOver([k \in 1..Len(walls[i].windows) |->
                                  walls[i].windows[k].width * walls[i].windows[k].height],
                               Len(walls[i].windows))], n)
        totalDoorCount == SumOver([i \in 1..n |-> Len(walls[i].doors)], n)
        built == totalBuiltArea(fp)
        \* built * 0.15 + totalWallLength * wallThickness * wallHeight, in cm^3
        volume == built * 15 + totalWallLength * thickness * height
        concrete == [volume |-> volume,
                     cost |-> ((volume \div 1000) * rates.concrete_per_m3) \div 1000]
        \* built * 25 + totalWallLength * 8, in grams
        weight == (built * 25) \div 10 + totalWallLength * 80
        steel == [weight |-> weight, cost |-> (weight * rates.steel_per_kg) \div 1000]
        \* Math.ceil(totalWallArea * blocks_per_m2)
        count == CeilDiv(totalWallArea * rates.blocks_per_10m2, 100000)
        blocks == [count |-> count, cost |-> count * rates.blocks_per_piece]
        \* built * 1.2
        area == (built * 12) \div 10
        roofing == [area |-> area, cost |-> ((area \div 100) * rates.roofing_per_m2) \div 100]
        windows == [count |-> totalWindowCount,
                    cost |-> ((totalWindowArea \div 100) * rates.window_per_m2) \div 100]
        doors == [count |-> totalDoorCount, cost |-> totalDoorCount * rates.door_per_piece]
        staircases == [count |-> Len(fp.staircases),
                       cost |-> Len(fp.staircases) * rates.staircase_per_flight]
        labor == [cost |-> ((built \div 100) * rates.labor_per_m2) \div 100]
    IN  [concrete |-> concrete, steel |-> steel, blocks |-> blocks, roofing |-> roofing,
         windows |-> windows, doors |-> doors, beams |-> [count |-> 0, cost |-> 0],
         staircases |-> staircases, labor |-> labor,
         total |-> estimateTotal(concrete, steel, blocks, roofing, windows, doors,
                                 staircases, labor)]

\* The "Calculate Estimate" button: setEstimate(calculateEstimate()).
clickCalculateEstimate ==
    /\ Mounted
    /\ estimate' = calculateEstimate(floorPlan, wallHeight, wallThickness, materialRates)
    /\ lastAlert' = NoAlert
    /\ UNCHANGED <<floorPlan, builderVars, settingVars, designerVars, projectVars, nextId>>

\* A faulty handleCSVUpload, which also recomputes the estimate.
handleCSVUploadRecomputing(prices) ==
    /\ Mounted
    /\ materialRates' = prices
    /\ estimate' = calculateEstimate(floorPlan, wallHeight, wallThickness, prices)
    /\ lastAlert' = "Material prices updated successfully!"
    /\ UNCHANGED <<floorPlan, builderVars, wallHeight, wallThickness,
                   designerVars, projectVars, nextId>>

\* handleCSVUpload: setMaterialRates(parseCSV(csvText)), the parsed prices given.
handleCSVUpload(prices) ==
    /\ Mounted
    /\ materialRates' = prices
    /\ lastAlert' = "Material prices updated successfully!"
    /\ UNCHANGED <<floorPlan, builderVars, wallHeight, wallThickness, estimate,
                   designerVars, projectVars, nextId>>

\* The wall height input: setWallHeight(Number(e.target.value)).
setWallHeight(value) ==
    /\ Mounted
    /\ wallHeight' = value
    /\ lastAlert' = NoAlert
    /\ UNCHANGED <<floorPlan, builderVars, wallThickness, materialRates, estimate,
                   designerVars, projectVars, nextId>>

\* The wall thickness input: setWallThickness(Number(e.target.value)).
setWallThickness(value) ==
    /\ Mounted
    /\ wallThickness' = value
    /\ lastAlert' = NoAlert
    /\ UNCHANGED <<floorPlan, builderVars, wallHeight, materialRates, estimate,
                   designerVars, projectVars, nextId>>

----------------------------------------------------------------------------
\* ProjectManager.  A file is text that is not JSON, or JSON text, given by
\* the value JSON.parse returns for it: null, or an object (a record of the
\* properties it has).  JSON.stringify leaves out the properties whose value
\* is undefined.

NotJsonFile == [kind |-> "text"]
JsonFile(value) == [kind |-> "json", value |-> value]
JsonNull == [jsonNull |-> TRUE]

\* A faulty JSON.stringify, which also leaves out the empty strings.
jsonStringifyWithoutEmpty(object) ==
    [kind |-> "json",
     value |-> [k \in {key \in DOMAIN object :
                         object[key] # Undefined /\ object[key] # [str |-> ""]}
                  |-> object[k]]]

\* JSON.stringify(object)
jsonStringify(object) ==
    JsonFile([k \in {key \in DOMAIN object : object[key] # Undefined} |-> object[k]])

\* object.key
Get(object, key) == IF key \in DOMAIN object THEN object[key] ELSE Undefined

LoadError == "Error loading project file. Please check the file format."

\* const totalWalls = allWalls.length (the Save button is disabled at 0)
totalWalls == Len(AllWalls(floorPlan))

\* saveProject()
saveProject ==
    /\ Mounted
    /\ totalWalls # 0
    /\ savedProjects < MaxSaves
    /\ LET projectData == [name |-> projectName, description |-> projectDescription,
                           floorPlan |-> floorPlan, version |-> Str("1.0.0")]
       IN  /\ savedProjects' = savedProjects + 1
           \* projectName.replace throws on a name that is undefined: no download
           /\ IF projectName = Undefined
              THEN UNCHANGED <<download, atSave>>
              ELSE /\ download' = jsonStringify(projectData)
                   /\ atSave' = [floorPlan |-> floorPlan, name |-> projectName,
                                 description |-> projectDescription]
    /\ lastAlert' = NoAlert
    /\ UNCHANGED <<floorPlan, builderVars, settingVars, estimate, designerVars,
                   projectName, projectDescription, nextId>>

\* loadProject(event), the reader's onload run on the file's text.
loadProject(file) ==
    /\ Mounted
    /\ IF file.kind # "json"
       THEN \* JSON.parse throws a SyntaxError
            /\ lastAlert' = LoadError
            /\ UNCHANGED <<floorPlan, projectName, projectDescription>>
       ELSE IF file.value = JsonNull
       THEN \* projectData.floorPlan throws a TypeError
            /\ lastAlert' = LoadError
            /\ UNCHANGED <<floorPlan, projectName, projectDescription>>
       ELSE LET loaded == Get(file.value, "floorPlan")
            IN  /\ floorPlan' = IF loaded = Undefined THEN Undefined
                                ELSE SupportBeamEffect(loaded)
                /\ projectName' = Get(file.value, "name")
                /\ projectDescription' = Get(file.value, "description")
                /\ lastAlert' = NoAlert
    /\ UNCHANGED <<builderVars, settingVars, estimate, designerVars, savedProjects,
                   download, atSave, nextId>>

\* The project name input: setProjectName(e.target.value).
setProjectName(value) ==
    /\ Mounted
    /\ projectName' = Str(value)
    /\ lastAlert' = NoAlert
    /\ UNCHANGED <<floorPlan, builderVars, settingVars, estimate, designerVars,
                   projectDescription, savedProjects, download, atSave, nextId>>

\* The project description input: setProjectDescription(e.target.value).
setProjectDescription(value) ==
    /\ Mounted
    /\ projectDescription' = Str(value)
    /\ lastAlert' = NoAlert
    /\ UNCHANGED <<floorPlan, builderVars, settingVars, estimate, designerVars,
                   projectName, savedProjects, download, atSave, nextId>>

----------------------------------------------------------------------------
\* RoofMesh: the perimeter of the roof, traced over the segments of the top
\* floor's walls.  One action is one stretch of the useMemo callback: the
\* collection of the segments, one iteration of the while loop, the end.
\* Segments are numbered from 1 (wallSegments[0] is segment 1).

Abs(n) == IF n < 0 THEN -n ELSE n

\* const tolerance = 0.1
tolerance == 10
\* const overhang = 0.3
overhang == 30

\* A faulty test of nearness, which looks at x only.
NearPointOnX(p, q) == Abs(p.x - q.x) < tolerance

\* Math.abs(p.x - q.x) < tolerance && Math.abs(p.z - q.z) < tolerance
NearPoint(p, q) ==
    /\ Abs(p.x - q.x) < tolerance
    /\ Abs(p.z - q.z) < tolerance

\* The segment the for loop stops at: the first one not used that has an end
\* near currentPoint; 0 when the loop runs to its end.
FoundConnection ==
    LET connected == {i \in 1..Len(wallSegments) :
                        /\ i \notin usedSegments
                        /\ \/ NearPoint(wallSegments[i].start, currentPoint)
                           \/ NearPoint(wallSegments[i].end, currentPoint)}
    IN  IF connected = {} THEN 0 ELSE SetMin(connected)

\* The four corners pushed when fewer than three points were ordered.
FallbackCorners ==
    LET b == BoundsOf(wallSegments)
    IN  << Point(b.minX - overhang, b.minZ - overhang),
           Point(b.maxX + overhang, b.minZ - overhang),
           Point(b.maxX + overhang, b.maxZ + overhang),
           Point(b.minX - overhang, b.maxZ + overhang) >>

\* From the start of the callback to the while loop.
roofCollect ==
    /\ roofPc = "collect"
    /\ IF Len(wallSegments) = 0
       THEN \* return { roofGeometry: null, totalBuildingHeight: 0 }
            /\ roofGeometry' = Null
            /\ roofPc' = "done"
            /\ UNCHANGED <<orderedPoints, usedSegments, currentPoint>>
       ELSE /\ orderedPoints' = <<wallSegments[1].start, wallSegments[1].end>>
            /\ usedSegments' = {1}
            /\ currentPoint' = wallSegments[1].end
            /\ roofPc' = "trace"
            /\ UNCHANGED roofGeometry
    /\ UNCHANGED wallSegments

\* The test of the while loop and one iteration of it.
roofTrace ==
    /\ roofPc = "trace"
    /\ IF Cardinality(usedSegments) < Len(wallSegments) /\ FoundConnection # 0
       THEN LET segment == wallSegments[FoundConnection]
                farEnd == IF NearPoint(segment.start, currentPoint)
                          THEN segment.end ELSE segment.start
            IN  /\ orderedPoints' = Append(orderedPoints, farEnd)
                /\ currentPoint' = farEnd
                /\ usedSegments' = usedSegments \cup {FoundConnection}
                /\ UNCHANGED roofPc
       ELSE \* the loop's test fails, or if (!foundConnection) break
            /\ roofPc' = "finish"
            /\ UNCHANGED <<orderedPoints, usedSegments, currentPoint>>
    /\ UNCHANGED <<wallSegments, roofGeometry>>

\* From the end of the while loop to the return.
roofFinish ==
    /\ roofPc = "finish"
    /\ orderedPoints' = IF Len(orderedPoints) < 3 THEN FallbackCorners
                        ELSE orderedPoints
    /\ roofGeometry' = [points |-> orderedPoints']
    /\ roofPc' = "done"
    /\ UNCHANGED <<wallSegments, usedSegments, currentPoint>>

----------------------------------------------------------------------------
\* calculatePolygonArea(points), the area of a polygon by the shoelace
\* formula.  With coordinates in cm the result is counted in halves of a
\* cm^2, which keeps Math.abs(area) / 2 exact.

\* The value of area after the for loop.
ShoelaceSum(pts) ==
    SumOver([i \in 1..Len(pts) |->
                LET j == (i % Len(pts)) + 1
                IN  pts[i].x * pts[j].z - pts[j].x * pts[i].z],
            Len(pts))

\* A faulty calculatePolygonArea, without Math.abs.
calculatePolygonAreaSigned(pts) ==
    IF Len(pts) < 3 THEN 0 ELSE ShoelaceSum(pts)

calculatePolygonArea(pts) ==
    IF Len(pts) < 3 THEN 0 ELSE Abs(ShoelaceSum(pts))

\* One call of calculatePolygonArea(points).
callCalculatePolygonArea ==
    /\ polygonArea = Null
    /\ polygonArea' = [returned |-> calculatePolygonArea(points)]
    /\ UNCHANGED points

----------------------------------------------------------------------------
\* The inputs of the handlers.

\* Canvas pixels clicked: the centre (0 m, 0 m), 5 m to its right, within 1 m
\* of the centre, and the canvas corner (-12.5 m, 15 m), outside the plot.
ClickPixels ==
    { [x |-> 250, z |-> 300], [x |-> 350, z |-> 300], [x |-> 0, z |-> 0] }

\* Slider values of the plot's width and depth (5 m to 20 m).
PlotSizes == {1000, 2000}

\* Requested positions of a window or a door, in hundredths.
PositionInputs == {0, 35, 100}

RoofStyles == {"flat", "gable"}

\* Values typed into the wall height and thickness inputs, in cm.
WallHeights == {300, 400}
WallThicknesses == {15, 20}

ProjectNames == {"My House Design", "Villa"}
ProjectDescriptions == {"", "Two floors"}

\* Price tables parsed from a CSV file.
RateTables ==
    { DEFAULT_MATERIAL_RATES,
      [DEFAULT_MATERIAL_RATES EXCEPT !.concrete_per_m3 = 5000, !.labor_per_m2 = 1000] }

Levels == 1..3
Ids == 1..(MaxIds + 1)

\* A project file written by hand or by another tool.
ForeignPlan ==
    [plotBounds |-> [width |-> 3000, depth |-> 3000],
     floors |-> << [id |-> 1, level |-> 1, height |-> 300, walls |-> <<>>, beams |-> <<>>] >>,
     staircases |-> <<>>,
     roofStyle |-> "flat"]

ForeignFiles ==
    { NotJsonFile,
      JsonFile(JsonNull),
      JsonFile([name |-> Str("Untitled")]),
      JsonFile([floorPlan |-> ForeignPlan]),
      JsonFile([name |-> Str("Big"), description |-> Str(""), floorPlan |-> ForeignPlan]) }

----------------------------------------------------------------------------
\* The next-state relations.

\* One operation of a session of at most MaxSteps operations.
Step(A) == steps < MaxSteps /\ steps' = steps + 1 /\ A /\ UNCHANGED <<roofVars, areaVars>>

\* Every handler.
Next ==
    \/ Step(addFloor)
    \/ \E level \in Levels : Step(removeFloor(level))
    \/ \E level \in Levels : Step(selectFloor(level))
    \/ Step(addStaircase)
    \/ \E id \in Ids : Step(selectStaircase(id))
    \/ Step(deleteStaircase)
    \/ \E dimension \in {"width", "depth"}, value \in PlotSizes :
          Step(handlePlotResize(dimension, value))
    \/ \E canvasPoint \in ClickPixels : Step(mouseDownWall(canvasPoint))
    \/ \E canvasPoint \in ClickPixels : Step(mouseDownRectangle(canvasPoint))
    \/ \E id \in Ids \cup {NullId} : Step(mouseDownSelect(id))
    \/ \E canvasPoint \in ClickPixels : Step(handleMouseMove(canvasPoint))
    \/ \E t \in {"select", "wall", "rectangle"} : Step(setTool(t))
    \/ Step(cancelDrawing)
    \/ Step(designerClearAllWalls)
    \/ Step(deleteSelectedWall)
    \/ \E id \in Ids, level \in Levels : Step(clickWallMesh(id, level))
    \/ Step(prevHighlightDecay)
    \/ Step(deselectWall)
    \/ Step(clickDeleteWall)
    \/ Step(clearAllWalls)
    \/ Step(clickAddWindow)
    \/ Step(clickAddDoor)
    \/ Step(designerAddWindow)
    \/ Step(designerAddDoor)
    \/ \E id \in Ids, value \in PositionInputs : Step(slideWindow(id, value))
    \/ \E id \in Ids, value \in PositionInputs : Step(slideDoor(id, value))
    \/ \E id \in Ids : Step(clickDeleteWindow(id))
    \/ \E id \in Ids : Step(clickDeleteDoor(id))
    \/ Step(clickCalculateEstimate)
    \/ \E prices \in RateTables : Step(handleCSVUpload(prices))
    \/ \E value \in WallHeights : Step(setWallHeight(value))
    \/ \E value \in WallThicknesses : Step(setWallThickness(value))
    \/ \E value \in RoofStyles : Step(setRoofStyle(value))
    \/ Step(saveProject)
    \/ \E file \in ForeignFiles : Step(loadProject(file))
    \/ Step(download # Null /\ loadProject(download))
    \/ \E value \in ProjectNames : Step(setProjectName(value))
    \/ \E value \in ProjectDescriptions : Step(setProjectDescription(value))

Spec == Init /\ [][Next]_vars

\* One operation of a session that is not limited in length, but in the
\* identifiers it hands out.
Op(A) ==
    /\ UNCHANGED steps
    /\ A
    /\ nextId' <= MaxSessionIds + 1
    /\ UNCHANGED <<roofVars, areaVars>>

\* The two pixels between which the sessions below draw walls.
WallPixels == { [x |-> 250, z |-> 300], [x |-> 350, z |-> 300] }

\* Sessions of floor, staircase and wall selection operations.
NextFloors ==
    \/ Op(addFloor)
    \/ \E level \in Levels : Op(removeFloor(level))
    \/ \E level \in Levels : Op(selectFloor(level))
    \/ Op(addStaircase)
    \/ \E id \in Ids : Op(selectStaircase(id))
    \/ Op(deleteStaircase)
    \/ \E canvasPoint \in WallPixels : Op(mouseDownWall(canvasPoint))
    \/ \E id \in Ids, level \in Levels : Op(clickWallMesh(id, level))
    \/ Op(prevHighlightDecay)
    \/ Op(deselectWall)
    \/ Op(clickDeleteWall)
    \/ Op(clearAllWalls)

SpecFloors == Init /\ [][NextFloors]_vars

\* Sessions that place windows and doors.
NextOpenings ==
    \/ \E canvasPoint \in WallPixels : Op(mouseDownWall(canvasPoint))
    \/ \E id \in Ids, level \in Levels : Op(clickWallMesh(id, level))
    \/ Op(addFloor)
    \/ Op(clickAddWindow)
    \/ Op(clickAddDoor)
    \/ Op(designerAddWindow)
    \/ Op(designerAddDoor)
    \/ \E id \in Ids, value \in PositionInputs : Op(slideWindow(id, value))
    \/ \E id \in Ids, value \in PositionInputs : Op(slideDoor(id, value))
    \/ \E id \in Ids : Op(clickDeleteWindow(id))
    \/ \E id \in Ids : Op(clickDeleteDoor(id))

SpecOpenings == Init /\ [][NextOpenings]_vars

\* Sessions that build a plan and estimate its cost.
NextEstimate ==
    \/ \E canvasPoint \in WallPixels : Op(mouseDownWall(canvasPoint))
    \/ \E id \in Ids, level \in Levels : Op(clickWallMesh(id, level))
    \/ Op(addFloor)
    \/ Op(addStaircase)
    \/ Op(clickAddWindow)
    \/ Op(clickAddDoor)
    \/ Op(clickCalculateEstimate)

SpecEstimate == Init /\ [][NextEstimate]_vars

\* Sessions that save and load projects.
NextProject ==
    \/ \E canvasPoint \in WallPixels : Op(mouseDownWall(canvasPoint))
    \/ Op(saveProject)
    \/ \E file \in ForeignFiles : Op(loadProject(file))
    \/ Op(download # Null /\ loadProject(download))
    \/ \E value \in ProjectNames : Op(setProjectName(value))
    \/ \E value \in ProjectDescriptions : Op(setProjectDescription(value))

SpecProject == Init /\ [][NextProject]_vars

\* Canvas pixels of the drawing sessions: the centre (0 m, 0 m), 0.5 m and
\* 5 m to its right.
DesignerPixels ==
    { [x |-> 250, z |-> 300], [x |-> 260, z |-> 300], [x |-> 350, z |-> 300] }

\* The pixel the drawing sessions move the mouse to.
MovePixels == { [x |-> 260, z |-> 300] }

\* Sessions of the 2D designer's wall tool on one or two floors.
NextDesigner ==
    \/ \E canvasPoint \in DesignerPixels : Op(mouseDownWall(canvasPoint))
    \/ \E canvasPoint \in MovePixels : Op(handleMouseMove(canvasPoint))
    \/ \E t \in {"select", "wall"} : Op(setTool(t))
    \/ Op(cancelDrawing)
    \/ Op(designerClearAllWalls)
    \/ Op(addFloor)
    \/ \E level \in Levels : Op(selectFloor(level))

SpecDesigner == Init /\ [][NextDesigner]_vars

\* Sessions that select walls, in the 3D view and with the select tool.
NextSelection ==
    \/ \E canvasPoint \in WallPixels : Op(mouseDownWall(canvasPoint))
    \/ Op(addFloor)
    \/ \E level \in Levels : Op(selectFloor(level))
    \/ \E t \in {"select", "wall"} : Op(setTool(t))
    \/ \E id \in Ids \cup {NullId} : Op(mouseDownSelect(id))
    \/ \E id \in Ids, level \in Levels : Op(clickWallMesh(id, level))
    \/ Op(prevHighlightDecay)
    \/ Op(deselectWall)

SpecSelection == Init /\ [][NextSelection]_vars

\* Wall ends of the roofs traced: two that are 5 cm apart and two corners.
RoofPoints == { Point(0, 0), Point(5, 0), Point(400, 0), Point(0, 300) }

\* Segments of a top floor's walls: between two different points, or of
\* length zero.
RoofSegments ==
    {segment \in [start : RoofPoints, end : RoofPoints] :
        segment.start # segment.end \/ segment.start = Point(400, 0)}

\* Segments of one top floor.
MaxSegments == 3

\* The lists of at most n elements of S.
SeqsUpTo(S, n) == UNION {[1..k -> S] : k \in 0..n}

\* RoofMesh is rendered for a top floor of any walls.
InitRoof ==
    /\ InitApp
    /\ AreaIdle
    /\ wallSegments \in SeqsUpTo(RoofSegments, MaxSegments)
    /\ orderedPoints = <<>>
    /\ usedSegments = {}
    /\ currentPoint = Null
    /\ roofGeometry = Null
    /\ roofPc = "collect"

RoofStep(A) == A /\ UNCHANGED <<appVars, areaVars>>

NextRoof ==
    \/ RoofStep(roofCollect)
    \/ RoofStep(roofTrace)
    \/ RoofStep(roofFinish)

\* The callback is JavaScript that runs to its end once it has started.
SpecRoof == InitRoof /\ [][NextRoof]_vars /\ WF_vars(NextRoof)

\* Vertices of the polygons measured: the corners of a 4 m by 3 m rectangle
\* and a point to the left of it.
PolygonPoints ==
    { Point(0, 0), Point(400, 0), Point(400, 300), Point(0, 300), Point(-200, 150) }

\* Vertices of one polygon.
MaxVertices == 4

\* calculatePolygonArea is called with any list of vertices.
InitArea ==
    /\ InitApp
    /\ RoofIdle
    /\ points \in SeqsUpTo(PolygonPoints, MaxVertices)
    /\ polygonArea = Null

AreaStep(A) == A /\ UNCHANGED <<appVars, roofVars>>

NextArea == AreaStep(callCalculatePolygonArea)

SpecArea == InitArea /\ [][NextArea]_vars

----------------------------------------------------------------------------
\* The properties.

\* C1: in every reachable state, plot resize and project load included, the
\* plot's width times its depth does not exceed the cap of 200 sqm.
PlotAreaWithinCap ==
    Mounted =>
        floorPlan.plotBounds.width * floorPlan.plotBounds.depth
            <= maxPlotArea * SqCmPerSqm

\* C2: in every reachable state both end points of every wall of a floor
\* above the first lie within floor 1's footprint, and there is no such wall
\* when floor 1 has no walls.
UpperWallsWithinFootprint ==
    Mounted =>
        \A i \in 1..Len(floorPlan.floors) :
            floorPlan.floors[i].level > 1 =>
                \A point \in EndPoints(floorPlan.floors[i].walls) :
                    LET floor1Footprint == getFloor1Footprint(floorPlan)
                    IN  IF floor1Footprint = Null THEN FALSE
                        ELSE WithinBox(point, floor1Footprint)

\* C3: the design has at least one and at most two floors, and addFloor on
\* a design of two floors adds nothing.
FloorCount == Mounted => Len(floorPlan.floors) \in 1..2

AddFloorAtMaximum ==
    (Len(floorPlan.floors) >= 2 /\ addFloor) => floorPlan' = floorPlan

OneOrTwoFloors == []FloorCount /\ [][AddFloorAtMaximum]_vars

\* C3 happens: addFloor was refused on a design of two floors.
OneOrTwoFloorsWitness ==
    /\ Len(floorPlan.floors) = 2
    /\ lastAlert = "Maximum 2 floors allowed"

\* C4: in every reachable state both end points of every wall of every floor
\* lie inside the plot rectangle.
WallsInsidePlot ==
    Mounted =>
        \A point \in EndPoints(AllWalls(floorPlan)) :
            WithinPlot(point, floorPlan.plotBounds)

\* C10: removeFloor of floor 1, or of the only floor, leaves the floors,
\* currentFloor and the wall selection unchanged.
RemoveFloorRefused ==
    \A level \in Levels :
        (removeFloor(level) /\ (level = 1 \/ Len(floorPlan.floors) <= 1)) =>
            /\ floorPlan'.floors = floorPlan.floors
            /\ currentFloor' = currentFloor
            /\ selectedWallId' = selectedWallId
            /\ lastAlert' \in {"Cannot remove floor 1", "Cannot remove the last floor"}

RemoveFloorRefuses == [][RemoveFloorRefused]_vars

\* C10 happens: removing floor 1 of two floors was refused with a wall of
\* floor 2 selected.
RemoveFloorRefusesWitness ==
    /\ Len(floorPlan.floors) = 2
    /\ lastAlert = "Cannot remove floor 1"
    /\ selectedWallId # NullId
    /\ currentFloor = 2

\* C5: every window's and every door's position is within [0.1, 0.9]; a new
\* opening starts at 0.5; a position update stores the requested value
\* clamped to [0.1, 0.9] and changes no other window, door, wall or floor.
PositionsInRange ==
    Mounted =>
        \A i \in 1..Len(floorPlan.floors) :
            \A j \in 1..Len(floorPlan.floors[i].walls) :
                LET wall == floorPlan.floors[i].walls[j]
                IN  /\ \A k \in 1..Len(wall.windows) : wall.windows[k].position \in 10..90
                    /\ \A k \in 1..Len(wall.doors) : wall.doors[k].position \in 10..90

\* The floor plan after the step differs from the one before it in nothing
\* but the position of the opening openingId of the selected wall, which is
\* the requested one brought into [0.1, 0.9].
OnlyPositionChanged(kind, openingId, requested) ==
    LET stored == IF requested < 10 THEN 10 ELSE IF requested > 90 THEN 90 ELSE requested
        other == IF kind = "windows" THEN "doors" ELSE "windows"
    IN  /\ DOMAIN floorPlan' = DOMAIN floorPlan
        /\ floorPlan'.plotBounds = floorPlan.plotBounds
        /\ floorPlan'.staircases = floorPlan.staircases
        /\ floorPlan'.roofStyle = floorPlan.roofStyle
        /\ Len(floorPlan'.floors) = Len(floorPlan.floors)
        /\ \A i \in 1..Len(floorPlan.floors) :
            LET before == floorPlan.floors[i]
                after == floorPlan'.floors[i]
            IN  /\ [after EXCEPT !.walls = <<>>] = [before EXCEPT !.walls = <<>>]
                /\ Len(after.walls) = Len(before.walls)
                /\ \A j \in 1..Len(before.walls) :
                    /\ [after.walls[j] EXCEPT ![kind] = <<>>]
                          = [before.walls[j] EXCEPT ![kind] = <<>>]
                    /\ Len(after.walls[j][kind]) = Len(before.walls[j][kind])
                    /\ \A k \in 1..Len(before.walls[j][kind]) :
                        after.walls[j][kind][k] =
                            IF /\ before.level = currentFloor
                               /\ before.walls[j].id = selectedWallId
                               /\ before.walls[j][kind][k].id = openingId
                            THEN [before.walls[j][kind][k] EXCEPT !.position = stored]
                            ELSE before.walls[j][kind][k]

PositionUpdateClamps ==
    \A value \in PositionInputs :
        /\ \A k \in 1..Len(selectedWall.windows) :
              LET id == selectedWall.windows[k].id
              IN  slideWindow(id, value) => OnlyPositionChanged("windows", id, value)
        /\ \A k \in 1..Len(selectedWall.doors) :
              LET id == selectedWall.doors[k].id
              IN  slideDoor(id, value) => OnlyPositionChanged("doors", id, value)

\* Every wall's openings of the kind are as before, or as before with one
\* more opening at 0.5.
NewOpeningAtHalf(kind) ==
    \A i \in 1..Len(floorPlan.floors) :
        \A j \in 1..Len(floorPlan.floors[i].walls) :
            LET before == floorPlan.floors[i].walls[j][kind]
                after == floorPlan'.floors[i].walls[j][kind]
            IN  \/ after = before
                \/ /\ Len(after) = Len(before) + 1
                   /\ SubSeq(after, 1, Len(before)) = before
                   /\ after[Len(after)].position = 50

NewOpeningsAtHalf ==
    /\ (clickAddWindow \/ designerAddWindow) =>
            floorPlan' # floorPlan /\ NewOpeningAtHalf("windows")
    /\ (clickAddDoor \/ designerAddDoor) =>
            floorPlan' # floorPlan /\ NewOpeningAtHalf("doors")

\* The operations on openings need a selected wall and change nothing of the
\* builder, the designer or the project but the floor plan; the updates hand
\* out no identifier, the additions do.
OpeningStep == Mounted /\ selectedWall # Undefined /\ UNCHANGED floorPlanOnly

OpeningPositions ==
    /\ []PositionsInRange
    /\ [][(OpeningStep /\ nextId' = nextId) => PositionUpdateClamps]_vars
    /\ [][(OpeningStep /\ nextId' # nextId) => NewOpeningsAtHalf]_vars

\* C5 happens: a wall has a window whose position was clamped up to 0.1 and
\* a door whose position was clamped down to 0.9.
OpeningPositionsWitness ==
    /\ Mounted
    /\ \E i \in 1..Len(floorPlan.floors) :
        \E j \in 1..Len(floorPlan.floors[i].walls) :
            LET wall == floorPlan.floors[i].walls[j]
            IN  /\ \E k \in 1..Len(wall.windows) : wall.windows[k].position = 10
                /\ \E k \in 1..Len(wall.doors) : wall.doors[k].position = 90

\* C6: the stored estimate changes only when Calculate Estimate runs, which
\* sets it to calculateEstimate of the current floor plan and rates; every
\* other operation leaves it unchanged.
EstimateChangesOnDemand ==
    estimate' # estimate =>
        /\ clickCalculateEstimate
        /\ estimate' = calculateEstimate(floorPlan, wallHeight, wallThickness,
                                         materialRates)

EstimateOnlyOnDemand == [][EstimateChangesOnDemand]_vars

\* C6 happens: an estimate was calculated and the plan edited after it, so
\* that the stored estimate is no longer the estimate of the plan.
EstimateOnlyOnDemandWitness ==
    /\ Mounted
    /\ estimate # Null
    /\ Len(AllWalls(floorPlan)) > 0
    /\ estimate # calculateEstimate(floorPlan, wallHeight, wallThickness, materialRates)

\* C7: loadProject of a file that is not a valid project (text that is not
\* JSON, or JSON with no floorPlan) reports an error and leaves the floor
\* plan, the project name and the description unchanged.
InvalidFiles ==
    {file \in ForeignFiles :
        file.kind # "json" \/ "floorPlan" \notin DOMAIN file.value}

InvalidFileRejected ==
    \A file \in InvalidFiles :
        loadProject(file) =>
            /\ lastAlert' = LoadError
            /\ UNCHANGED <<floorPlan, projectName, projectDescription>>

LoadRejectsInvalidFiles == [][InvalidFileRejected]_vars

\* C8: loading the file saveProject produced restores the floor plan, the
\* name and the description that were current when saveProject ran, and
\* saveProject leaves the floor plan unchanged.
LoadRestoresSaved ==
    (download # Null /\ loadProject(download)) =>
        /\ floorPlan' = atSave.floorPlan
        /\ projectName' = atSave.name
        /\ projectDescription' = atSave.description

SaveKeepsFloorPlan == saveProject => floorPlan' = floorPlan

OpeningsOf(fp, kind) ==
    UNION { UNION { { <<i, j, k>> : k \in 1..Len(fp.floors[i].walls[j][kind]) } :
                    j \in 1..Len(fp.floors[i].walls) } :
            i \in 1..Len(fp.floors) }

TotalIsSumOfCosts(e) ==
    e.total = e.concrete.cost + e.steel.cost + e.blocks.cost + e.roofing.cost
                + e.windows.cost + e.doors.cost + e.beams.cost
                + e.staircases.cost + e.labor.cost

EstimateTotalIsSum ==
    Mounted =>
        /\ \A rates \in RateTables :
            LET e == calculateEstimate(floorPlan, wallHeight, wallThickness, rates)
            IN  /\ TotalIsSumOfCosts(e)
                /\ e.windows.count = Cardinality(OpeningsOf(floorPlan, "windows"))
                /\ e.doors.count = Cardinality(OpeningsOf(floorPlan, "doors"))
                /\ e.staircases.count = Len(floorPlan.staircases)
        /\ estimate # Null => TotalIsSumOfCosts(estimate)

\* C9 happens: the estimate of a plan with a window on a wall of floor 2 was
\* calculated.
EstimateTotalIsSumWitness ==
    /\ Mounted
    /\ estimate = calculateEstimate(floorPlan, wallHeight, wallThickness, materialRates)
    /\ estimate.windows.count = 1
    /\ estimate.windows.cost > 0
    /\ estimate.labor.cost > 0
    /\ estimate.total > estimate.windows.cost + estimate.labor.cost
    /\ \E i \in 1..Len(floorPlan.floors) :
          /\ floorPlan.floors[i].level = 2
          /\ \E j \in 1..Len(floorPlan.floors[i].walls) :
                Len(floorPlan.floors[i].walls[j].windows) = 1

\* C11: after any sequence of addFloor and removeFloor the floor levels are
\* unique and sequential: the set of levels is exactly 1 .. number of floors.
FloorLevelsSequential ==
    Mounted =>
        /\ {floorPlan.floors[i].level : i \in 1..Len(floorPlan.floors)}
               = 1..Len(floorPlan.floors)
        /\ \A i, j \in 1..Len(floorPlan.floors) :
               floorPlan.floors[i].level = floorPlan.floors[j].level => i = j

\* C11 happens: a second floor was added, removed and added again (the
\* identifier before the second floor's went to nothing that is left).
FloorLevelsSequentialWitness ==
    /\ Len(floorPlan.floors) = 2
    /\ floorPlan.floors[2].id = 3
    /\ AllWalls(floorPlan) = <<>>
    /\ floorPlan.staircases = <<>>
    /\ isDrawing = FALSE

\* C12: in every reachable state, project load included, currentFloor is the
\* level of a floor of the plan.
CurrentFloorExists ==
    Mounted => \E i \in 1..Len(floorPlan.floors) : floorPlan.floors[i].level = currentFloor

\* C13: in every reachable state the fromFloor and the toFloor of every
\* staircase are levels of floors of the plan.
StaircaseFloorsExist ==
    Mounted =>
        \A k \in 1..Len(floorPlan.staircases) :
            /\ FindFloor(floorPlan, floorPlan.staircases[k].fromFloor) # Undefined
            /\ FindFloor(floorPlan, floorPlan.staircases[k].toFloor) # Undefined

\* C14: whenever a wall is selected, selectedWallId is the id of a wall of
\* the current floor.
SelectedWallOnCurrentFloor ==
    (Mounted /\ selectedWallId # NullId) => selectedWall # Undefined

\* C15: a wall-tool click while not drawing only records the start point and
\* enters the drawing state; the next click leaves the drawing state with
\* drawingStart and the preview position cleared and adds at most one wall,
\* from the recorded start to the clicked point (snapped to the grid or to a
\* wall end near it), appended after the walls there were, which stay as
\* they are.
WallToolFirstClick(canvasPoint) ==
    LET snappedPoint == snappedPointOf(canvasPoint)
    IN  /\ isDrawing'
        /\ \/ drawingStart' = snappedPoint
           \/ /\ drawingStart' \in EndPoints(currentWalls)
              /\ DistanceSq(snappedPoint, drawingStart') < snapThreshold * snapThreshold
        /\ floorPlan' = floorPlan

WallToolSecondClick(canvasPoint) ==
    LET snappedPoint == snappedPointOf(canvasPoint)
        newWalls == FindFloor(floorPlan', currentFloor).walls
        added == newWalls[Len(newWalls)]
    IN  /\ ~isDrawing'
        /\ drawingStart' = Null
        /\ currentMousePos' = Null
        /\ Len(floorPlan'.floors) = Len(floorPlan.floors)
        /\ \/ \A i \in 1..Len(floorPlan.floors) :
                  floorPlan'.floors[i].walls = floorPlan.floors[i].walls
           \/ /\ \A i \in 1..Len(floorPlan.floors) :
                     floorPlan'.floors[i].walls =
                        IF floorPlan.floors[i].level = currentFloor
                        THEN Append(floorPlan.floors[i].walls, added)
                        ELSE floorPlan.floors[i].walls
              /\ Len(AllWalls(floorPlan')) = Len(AllWalls(floorPlan)) + 1
              /\ added.start = drawingStart
              /\ \/ added.end = snappedPoint
                 \/ /\ added.end \in EndPoints(currentWalls)
                    /\ DistanceSq(snappedPoint, added.end) < snapThreshold * snapThreshold

WallToolClick ==
    \A canvasPoint \in DesignerPixels :
        mouseDownWall(canvasPoint) =>
            IF ~isDrawing THEN WallToolFirstClick(canvasPoint)
            ELSE WallToolSecondClick(canvasPoint)

WallToolProtocol ==
    [][(Mounted /\ tool = "wall" /\ UNCHANGED <<tool, builderVars>>) => WallToolClick]_vars

\* C15 happens: the second click of a second pair of clicks has appended a
\* wall after the first one, which starts at the first wall's end.
WallToolProtocolWitness ==
    /\ Mounted
    /\ ~isDrawing
    /\ drawingStart = Null
    /\ Len(currentWalls) = 2
    /\ currentWalls[1].id < currentWalls[2].id
    /\ currentWalls[2].start = currentWalls[1].end

\* C16: every wall the designer has added, with the wall tool or with the
\* rectangle tool, has its start and its end more than 0.1 m apart.
NoZeroLengthWalls ==
    Mounted =>
        \A i \in 1..Len(AllWalls(floorPlan)) :
            DistanceSq(AllWalls(floorPlan)[i].start, AllWalls(floorPlan)[i].end)
                > minWallLength * minWallLength

\* C17: for a clicked point and the walls of the designer, findNearestPoint
\* returns the wall end nearest to the point among the wall ends closer
\* than the threshold, and null exactly when there is no such wall end.
NearestPointIsNearest ==
    Mounted =>
        \A canvasPoint \in DesignerPixels :
            LET point == snappedPointOf(canvasPoint)
                near == {e \in EndPoints(currentWalls) :
                            DistanceSq(point, e) < snapThreshold * snapThreshold}
                found == findNearestPoint(point, currentWalls)
            IN  IF near = {} THEN found = Null
                ELSE /\ found \in near
                     /\ \A e \in near : DistanceSq(point, found) <= DistanceSq(point, e)

\* C18: handleWallSelect(wallId, floorLevel) toggles.  When wallId is the
\* selected wall and floorLevel the current floor, the selection and the
\* previous selection are cleared; otherwise wallId becomes the selection,
\* the wall that was selected (if any) becomes the previous selection and,
\* for a wallId that is not null, floorLevel becomes the current floor.  The
\* floor plan stays as it is.
WallSelectToggled(wallId, floorLevel) ==
    /\ floorPlan' = floorPlan
    /\ IF selectedWallId = wallId /\ currentFloor = floorLevel
       THEN /\ selectedWallId' = NullId
            /\ prevSelectedWallId' = NullId
       ELSE /\ selectedWallId' = wallId
            /\ selectedWallId # NullId => prevSelectedWallId' = selectedWallId
            /\ wallId # NullId => currentFloor' = floorLevel

WallSelectStep ==
    /\ \A wallId \in Ids, floorLevel \in Levels :
           clickWallMesh(wallId, floorLevel) => WallSelectToggled(wallId, floorLevel)
    /\ \A wallId \in Ids \cup {NullId} :
           mouseDownSelect(wallId) => WallSelectToggled(wallId, currentFloor)

WallSelectToggles ==
    [][(Mounted /\ UNCHANGED <<designerVars, nextId>>) => WallSelectStep]_vars

\* C18 happens: with a wall of floor 1 selected, a wall of floor 2 was
\* selected: the first is the previous selection and floor 2 is current.
WallSelectTogglesWitness ==
    /\ Mounted
    /\ Len(floorPlan.floors) = 2
    /\ currentFloor = 2
    /\ selectedWall # Undefined
    /\ prevSelectedWallId # NullId
    /\ FindWall(floorPlan.floors[1].walls, prevSelectedWallId) # Undefined

\* C19: the trace of the roof's perimeter terminates for every list of wall
\* segments; it consumes each segment at most once; a point it appends is
\* the far end of a segment not consumed before whose near end is within
\* 0.1 m of the current point on both axes; and when fewer than three points
\* were ordered the result is the four corners of the bounding box of the
\* wall ends, expanded by 0.3 m.
WithinTolerance(p, q) ==
    /\ p.x - q.x < 10 /\ q.x - p.x < 10
    /\ p.z - q.z < 10 /\ q.z - p.z < 10

RoofSegmentsUsedOnce ==
    roofPc \in {"trace", "finish", "done"} /\ wallSegments # <<>> =>
        /\ usedSegments \subseteq 1..Len(wallSegments)
        /\ Len(orderedPoints) = Cardinality(usedSegments) + 1
           \/ (roofPc = "done" /\ Cardinality(usedSegments) = 1)

RoofTraceAppends ==
    (roofPc = "trace" /\ orderedPoints' # orderedPoints) =>
        \E i \in 1..Len(wallSegments) \ usedSegments :
            /\ usedSegments' = usedSegments \cup {i}
            /\ \/ /\ WithinTolerance(wallSegments[i].start, currentPoint)
                  /\ orderedPoints' = Append(orderedPoints, wallSegments[i].end)
               \/ /\ WithinTolerance(wallSegments[i].end, currentPoint)
                  /\ orderedPoints' = Append(orderedPoints, wallSegments[i].start)
            /\ currentPoint' = orderedPoints'[Len(orderedPoints')]

RoofFallsBack ==
    roofPc = "finish" =>
        LET xs == {p.x : p \in EndPoints(wallSegments)}
            zs == {p.z : p \in EndPoints(wallSegments)}
        IN  roofGeometry'.points =
                IF Len(orderedPoints) < 3
                THEN << Point(SetMin(xs) - 30, SetMin(zs) - 30),
                        Point(SetMax(xs) + 30, SetMin(zs) - 30),
                        Point(SetMax(xs) + 30, SetMax(zs) + 30),
                        Point(SetMin(xs) - 30, SetMax(zs) + 30) >>
                ELSE orderedPoints

RoofPerimeterTrace ==
    /\ <>(roofPc = "done")
    /\ []RoofSegmentsUsedOnce
    /\ [][RoofTraceAppends /\ RoofFallsBack]_vars

\* C19 happens: three segments were traced into a closed perimeter, whose
\* last point is near the first one without being it.
RoofPerimeterTraceWitness ==
    /\ roofPc = "done"
    /\ usedSegments = {1, 2, 3}
    /\ roofGeometry = [points |-> orderedPoints]
    /\ Len(orderedPoints) = 4
    /\ orderedPoints[4] # orderedPoints[1]
    /\ WithinTolerance(orderedPoints[4], orderedPoints[1])

\* C20: calculatePolygonArea returns 0 for fewer than three points and
\* otherwise the area of the polygon of the ordered vertices (here as the
\* sum of the triangles of the fan from the first vertex): the result is
\* not negative, it is the same for every cyclic rotation of the vertices
\* and for the reversed vertices, and it is width times height for an
\* axis-aligned rectangle.  Areas are in halves of a cm^2.
Rotated(pts, k) == [i \in 1..Len(pts) |-> pts[((i + k - 1) % Len(pts)) + 1]]

Reversed(pts) == [i \in 1..Len(pts) |-> pts[Len(pts) + 1 - i]]

FanArea(pts) ==
    SumOver([i \in 1..Len(pts) |->
                IF i = 1 \/ i = Len(pts) THEN 0
                ELSE (pts[i].x - pts[1].x) * (pts[i + 1].z - pts[1].z)
                     - (pts[i + 1].x - pts[1].x) * (pts[i].z - pts[1].z)],
            Len(pts))

IsRectangle(pts) ==
    /\ Len(pts) = 4
    /\ pts[1].z = pts[2].z /\ pts[2].x = pts[3].x
    /\ pts[3].z = pts[4].z /\ pts[4].x = pts[1].x

PolygonAreaIsShoelace ==
    polygonArea # Null =>
        LET returned == polygonArea.returned
        IN  /\ Len(points) < 3 => returned = 0
            /\ returned >= 0
            /\ Len(points) >= 3 =>
                   returned \in {FanArea(points), -FanArea(points)}
            /\ \A k \in 1..Len(points) :
                   calculatePolygonArea(Rotated(points, k)) = returned
            /\ calculatePolygonArea(Reversed(points)) = returned
            /\ IsRectangle(points) =>
                   returned \in
                       { 2 * (points[2].x - points[1].x) * (points[3].z - points[2].z),
                         2 * (points[1].x - points[2].x) * (points[3].z - points[2].z) }

\* C20 happens: the area of the 4 m by 3 m rectangle, its vertices listed in
\* the order that makes the shoelace sum negative, is 12 square metres.
PolygonAreaIsShoelaceWitness ==
    /\ points = << Point(0, 0), Point(0, 300), Point(400, 300), Point(400, 0) >>
    /\ polygonArea = [returned |-> 2 * 400 * 300]

====
